---- MODULE Spec2Model ----
(***************************************************************************)
(* A model of the functions of tuto_exercise.ipynb: the fasta reader, the  *)
(* alphabet codec, the one-hot expansion, the independent-site fields, the *)
(* pseudo-count regularisation, the Boltzmann-machine energy and the       *)
(* Metropolis sampler.                                                     *)
(*                                                                         *)
(* Strings are sequences of one-character strings.  Real numbers are exact *)
(* rationals <<n, d>> with d > 0 in lowest terms, extended where numpy     *)
(* produces them with the values Inf, NegInf and NaN.                      *)
(***************************************************************************)
EXTENDS Integers, Sequences, FiniteSets, TLC

VARIABLES
    \* read_fasta
    lines, idx, t_s, labels, seqs, fpc,
    \* a call of one of the functions: arguments, result, position
    arg, ret, cpc,
    \* metropolis: the caller's start_conf array, the chain state s, whether
    \* s is the caller's array itself, the loop counter k, and the locals
    \* of the last step
    start_conf, s, s_alias, k_loop, pos_t, t_n, s_t, energy_diff, accepted,
    \* several chains run from one start_conf array: the contents of the
    \* arrays, and for each chain its position, the array its name s is
    \* bound to, its loop counter and its result
    heap, chain

fastaVars == <<lines, idx, t_s, labels, seqs, fpc>>
callVars == <<arg, ret, cpc>>
metroVars ==
    <<start_conf, s, s_alias, k_loop, pos_t, t_n, s_t, energy_diff, accepted>>
chainVars == <<heap, chain>>
vars ==
    <<lines, idx, t_s, labels, seqs, fpc, arg, ret, cpc,
      start_conf, s, s_alias, k_loop, pos_t, t_n, s_t, energy_diff, accepted,
      heap, chain>>

\* The value of the variables of the functions a specification does not run.
Idle == "idle"

FastaIdle ==
    /\ lines = Idle /\ idx = Idle /\ t_s = Idle
    /\ labels = Idle /\ seqs = Idle /\ fpc = Idle

MetroIdle ==
    /\ start_conf = Idle /\ s = Idle /\ s_alias = Idle /\ k_loop = Idle
    /\ pos_t = Idle /\ t_n = Idle /\ s_t = Idle
    /\ energy_diff = Idle /\ accepted = Idle

ChainsIdle == heap = Idle /\ chain = Idle

----------------------------------------------------------------------------
(* Bounds of the model.                                                    *)

\* Largest number of lines of an input file.
MaxLines == 5

\* Largest length of a sequence given to the codec.
MaxSeqLen == 2

\* Largest number of sequences of an alignment given to the codec.
MaxB == 2

\* Largest number of positions of a frequency vector.
MaxL == 2

\* Number of sequences the empirical frequencies are counted over.
FreqDen == 2

\* Largest number of positions of the sequence the sampler runs on.
MaxPos == 2

\* Largest number of steps of a chain (Nsteps).
MaxSteps == 2

----------------------------------------------------------------------------
(* Sequence helpers.                                                       *)

RECURSIVE Flatten(_)
\* The concatenation of a sequence of sequences.
Flatten(ss) == IF ss = <<>> THEN <<>> ELSE Head(ss) \o Flatten(Tail(ss))

\* All sequences over S of length at most n.
SeqsUpTo(S, n) == UNION {[1..k -> S] : k \in 0..n}

RECURSIVE SumFirst(_, _)
\* The sum of the first n of a sequence of integers.
SumFirst(xs, n) == IF n = 0 THEN 0 ELSE xs[n] + SumFirst(xs, n - 1)

\* The sum of a sequence of integers.
SumSeq(xs) == SumFirst(xs, Len(xs))

\* What a call gives its caller: a returned value or a raised exception.
Ok(v) == [tag |-> "ok", val |-> v]
Raise(e) == [tag |-> "raise", exc |-> e]

----------------------------------------------------------------------------
(* Numbers.  A float is modelled by the exact rational <<n, d>>, d > 0, in *)
(* lowest terms.  numpy's division and logarithm do not raise: they return *)
(* inf, -inf or nan (with a RuntimeWarning), modelled by the extended      *)
(* values below.                                                           *)

Abs(n) == IF n < 0 THEN -n ELSE n

RECURSIVE GCD(_, _)
GCD(a, b) == IF b = 0 THEN a ELSE GCD(b, a % b)

\* The rational n/d (d # 0) in lowest terms.
Rat(n, d) ==
    LET sn == IF d < 0 THEN -n ELSE n
        sd == Abs(d)
        g == GCD(Abs(sn), sd)
    IN <<sn \div g, sd \div g>>

Zero == Rat(0, 1)
One == Rat(1, 1)
RAdd(x, y) == Rat(x[1] * y[2] + y[1] * x[2], x[2] * y[2])
RNeg(x) == <<-x[1], x[2]>>
RSub(x, y) == RAdd(x, RNeg(y))
RMul(x, y) == Rat(x[1] * y[1], x[2] * y[2])
RDiv(x, y) == Rat(x[1] * y[2], x[2] * y[1])
RLt(x, y) == x[1] * y[2] < y[1] * x[2]

RECURSIVE RSumFirst(_, _)
\* The sum of the first n entries of a vector.
RSumFirst(xs, n) == IF n = 0 THEN Zero ELSE RAdd(RSumFirst(xs, n - 1), xs[n])

\* np.sum of a vector.
RSum(xs) == RSumFirst(xs, Len(xs))

RECURSIVE DotFirst(_, _, _)
\* The sum of the products of the first n entries of two vectors.
DotFirst(xs, ys, n) ==
    IF n = 0 THEN Zero ELSE RAdd(DotFirst(xs, ys, n - 1), RMul(xs[n], ys[n]))

\* np.dot of two vectors of one length.
Dot(xs, ys) == DotFirst(xs, ys, Len(xs))

\* np.dot of a matrix (a sequence of rows) and a vector.
MatVec(m, xs) == [k \in 1..Len(m) |-> Dot(m[k], xs)]

Fin(r) == [k |-> "fin", v |-> r]
Inf == [k |-> "inf"]
NegInf == [k |-> "-inf"]
NaN == [k |-> "nan"]

\* x / y of two floats: a zero divisor gives inf, -inf or nan.
XDiv(x, y) ==
    IF y # Zero THEN Fin(RDiv(x, y))
    ELSE IF RLt(Zero, x) THEN Inf
    ELSE IF RLt(x, Zero) THEN NegInf
    ELSE NaN

\* np.log(x): the logarithm of a positive number is kept symbolic.
XLog(x) ==
    IF x.k = "fin"
    THEN IF RLt(Zero, x.v) THEN [k |-> "log", of |-> x.v]
         ELSE IF x.v = Zero THEN NegInf
         ELSE NaN
    ELSE IF x.k = "inf" THEN Inf
    ELSE NaN

RECURSIVE PowerOfTwo(_)
PowerOfTwo(d) == d = 1 \/ (d % 2 = 0 /\ PowerOfTwo(d \div 2))

\* The number is a float32: a dyadic rational of at most 24 significant
\* bits (the exponents of the model's numbers are far from the limits).
IsFloat32(x) == PowerOfTwo(x[2]) /\ Abs(x[1]) < 16777216

\* A float64 stored into an array of the given dtype: unchanged in a
\* float64 array; in a float32 array rounded to the nearest float32, a
\* number other than x unless x is a float32 already.
Cast(x, dtype) ==
    IF dtype = "float64" \/ IsFloat32(x) THEN x
    ELSE <<x[1], x[2], "rounded to float32">>

\* A finite number: neither inf, -inf nor nan.
IsFinite(x) == x.k \in {"fin", "log"}

----------------------------------------------------------------------------
(* read_fasta                                                              *)

\* The characters str.rstrip() removes from the right end of a string.
Whitespace == {" ", "\t", "\n"}

\* The text of the lines the input files are made of, line terminator
\* excluded: headers (with and without trailing blank), sequence lines
\* (with and without trailing blank), a blank line, an empty line.
LineTexts ==
    { <<>>,
      <<" ">>,
      <<">", "a">>,
      <<">", "b", " ">>,
      <<"A">>,
      <<"C", "D">>,
      <<"A", " ">> }

\* f.readlines(): every line keeps its terminator, the last line of a file
\* that does not end in a newline has none.
readlines(texts, eofNewline) ==
    [i \in 1..Len(texts) |->
        IF i < Len(texts) \/ eofNewline THEN Append(texts[i], "\n")
        ELSE texts[i]]

\* A file's lines as readlines returns them; a file whose last line is empty
\* and unterminated has that line not at all.
FastaInputs ==
    { readlines(texts, nl) : texts \in SeqsUpTo(LineTexts, MaxLines),
                             nl \in BOOLEAN }
    \ { ls \in { readlines(texts, FALSE) : texts \in SeqsUpTo(LineTexts, MaxLines) } :
            ls # <<>> /\ ls[Len(ls)] = <<>> }

RECURSIVE rstrip(_)
\* l.rstrip(): l without its trailing whitespace.
rstrip(l) ==
    IF l # <<>> /\ l[Len(l)] \in Whitespace
    THEN rstrip(SubSeq(l, 1, Len(l) - 1))
    ELSE l

\* The header branch that flushes the pending sequence unconditionally.
FlushAtHeader_bug(ss, pending) == Append(ss, pending)

\* "if len(t_s) > 0: seqs.append(t_s)" of the header branch.
FlushAtHeader(ss, pending) ==
    IF Len(pending) > 0 THEN Append(ss, pending) ELSE ss

FastaInit ==
    /\ lines \in FastaInputs
    /\ idx = 1
    /\ t_s = <<>>
    /\ labels = <<>>
    /\ seqs = <<>>
    /\ fpc = "loop"
    /\ arg = Idle /\ ret = Idle /\ cpc = Idle
    /\ MetroIdle /\ ChainsIdle

\* One iteration of "for l in lines" on a line that starts with '>'.
ReadHeader ==
    /\ fpc = "loop" /\ idx <= Len(lines)
    /\ LET t_l == rstrip(lines[idx]) IN
        /\ t_l # <<>> /\ t_l[1] = ">"
        /\ seqs' = FlushAtHeader(seqs, t_s)
        /\ labels' = Append(labels, Tail(t_l))
        /\ t_s' = <<>>
    /\ idx' = idx + 1
    /\ UNCHANGED <<lines, fpc, callVars, metroVars, chainVars>>

\* One iteration of "for l in lines" on a line that does not start with '>'.
ReadSequence ==
    /\ fpc = "loop" /\ idx <= Len(lines)
    /\ LET t_l == rstrip(lines[idx]) IN
        /\ t_l # <<>> /\ t_l[1] # ">"
        /\ t_s' = t_s \o t_l
    /\ idx' = idx + 1
    /\ UNCHANGED <<lines, labels, seqs, fpc, callVars, metroVars, chainVars>>

\* t_l[0] of a line that is empty once stripped raises IndexError.
ReadRaise ==
    /\ fpc = "loop" /\ idx <= Len(lines)
    /\ rstrip(lines[idx]) = <<>>
    /\ fpc' = "raised"
    /\ UNCHANGED <<lines, idx, t_s, labels, seqs, callVars, metroVars, chainVars>>

\* The end of the loop: the pending sequence is appended and the lists returned.
ReadReturn ==
    /\ fpc = "loop" /\ idx > Len(lines)
    /\ seqs' = Append(seqs, t_s)
    /\ fpc' = "returned"
    /\ UNCHANGED <<lines, idx, t_s, labels, callVars, metroVars, chainVars>>

FastaNext == ReadHeader \/ ReadSequence \/ ReadRaise \/ ReadReturn

SpecFasta == FastaInit /\ [][FastaNext]_vars

(* What a file holds, read off the file itself: texts[i] is the text of   *)
(* line i.                                                                *)

\* A line without its line terminator, nothing else removed.
Chomp(l) == IF l # <<>> /\ l[Len(l)] = "\n" THEN SubSeq(l, 1, Len(l) - 1) ELSE l

\* The lines of the file without their terminators.
Chomped == [i \in 1..Len(lines) |-> Chomp(lines[i])]

\* The lines of the file without their trailing whitespace.
Stripped == [i \in 1..Len(lines) |-> rstrip(lines[i])]

IsHeaderText(t) == t # <<>> /\ t[1] = ">"

HeaderLines(texts) == {i \in 1..Len(texts) : IsHeaderText(texts[i])}

\* The file is n >= 1 records: a header, then one or more non-empty
\* sequence lines.
WellFormed(texts) ==
    /\ Len(texts) >= 1
    /\ 1 \in HeaderLines(texts)
    /\ \A i \in 1..Len(texts) : texts[i] # <<>>
    /\ \A i \in HeaderLines(texts) :
        i < Len(texts) /\ (i + 1) \notin HeaderLines(texts)

\* The line of the n-th header.
NthHeader(texts, n) ==
    CHOOSE h \in HeaderLines(texts) :
        Cardinality({j \in HeaderLines(texts) : j <= h}) = n

\* The last line of the record of the n-th header.
RecordEnd(texts, n) ==
    IF n < Cardinality(HeaderLines(texts))
    THEN NthHeader(texts, n + 1) - 1
    ELSE Len(texts)

ExpectedLabels(texts) ==
    [n \in 1..Cardinality(HeaderLines(texts)) |-> Tail(texts[NthHeader(texts, n)])]

ExpectedSeqs(texts) ==
    [n \in 1..Cardinality(HeaderLines(texts)) |->
        Flatten([j \in 1..(RecordEnd(texts, n) - NthHeader(texts, n)) |->
                    texts[NthHeader(texts, n) + j]])]

SeqOfLabel(n) ==
    Flatten([j \in 1..(RecordEnd(Stripped, n) - NthHeader(Stripped, n)) |->
                rstrip(lines[NthHeader(Stripped, n) + j])])

\* C2: whenever read_fasta returns, for any input lines, labels and seqs
\* have the same length and seqs[i] is the sequence that follows labels[i]
\* in the file.
C2_ParallelLists ==
    fpc = "returned" =>
        /\ Len(labels) = Len(seqs)
        /\ \A n \in 1..Len(labels) : seqs[n] = SeqOfLabel(n)

\* The first line of the file, which should be a header, has no leading '>'.
HeaderMissingMarker ==
    /\ Len(lines) >= 1
    /\ Chomp(lines[1]) # <<>>
    /\ Chomp(lines[1])[1] # ">"

HasEmptyLine == \E i \in 1..Len(lines) : Chomp(lines[i]) = <<>>

\* C3: read_fasta raises, instead of returning lists, whenever the input
\* holds an empty sequence line or a header line without its leading '>'.
C3_FailsOnMalformed ==
    (HasEmptyLine \/ HeaderMissingMarker) => fpc # "returned"

----------------------------------------------------------------------------
(* seq2num, num2seq, seq2occurrence, seq_from_1hot_gauged                  *)
(*                                                                         *)
(* A numpy array is [ndim, data]: data is the sequence of the elements of  *)
(* a one-dimensional array and the sequence of the rows of a               *)
(* two-dimensional one.  Python and numpy index from 0, sequences from 1.  *)

\* The alphabet, in the order of the list AAs.
AAs == << "-", "A", "C", "D", "E", "F", "G", "H", "I", "K", "L",
          "M", "N", "P", "Q", "R", "S", "T", "V", "W", "Y" >>

\* ntdict[x]: the index of symbol x in AAs.
ntdict(x) == (CHOOSE k \in 1..Len(AAs) : AAs[k] = x) - 1

InAlphabet(x) == \E k \in 1..Len(AAs) : AAs[k] = x

\* Symbols of the inputs: the first symbol, the last symbol that has a
\* column of its own, the last symbol, and one outside the alphabet.
KnownSyms == {"-", "W", "Y"}
InputSyms == KnownSyms \cup {"X"}

Array1(xs) == [ndim |-> 1, data |-> xs]
Array2(rows) == [ndim |-> 2, data |-> rows]

\* seq2num(seq): a 1 x L array for a str, a B x L array for a list of B
\* strings of length L.  A symbol outside the alphabet raises KeyError;
\* an empty list gives the one-dimensional empty array; strings of
\* different lengths make np.array(..., dtype=np.int16) raise ValueError.
seq2num(seq) ==
    IF seq.type = "str"
    THEN IF \E i \in 1..Len(seq.str) : ~InAlphabet(seq.str[i])
         THEN Raise("KeyError")
         ELSE Ok(Array2(<< [i \in 1..Len(seq.str) |-> ntdict(seq.str[i])] >>))
    ELSE IF \E b \in 1..Len(seq.list) :
                \E i \in 1..Len(seq.list[b]) : ~InAlphabet(seq.list[b][i])
         THEN Raise("KeyError")
         ELSE IF seq.list = <<>>
         THEN Ok(Array1(<<>>))
         ELSE IF \E b \in 1..Len(seq.list) : Len(seq.list[b]) # Len(seq.list[1])
         THEN Raise("ValueError")
         ELSE Ok(Array2([b \in 1..Len(seq.list) |->
                    [i \in 1..Len(seq.list[b]) |-> ntdict(seq.list[b][i])]]))

\* AAs[x] of a Python list: 0 <= x < 21 counts from the left, -21 <= x < 0
\* from the right.
AAsAt(x) == IF x >= 0 THEN AAs[x + 1] ELSE AAs[Len(AAs) + x + 1]

\* num2seq(num): ''.join([AAs[x] for x in num]).  Iterating over a
\* two-dimensional array yields its rows, and a list indexed by an array
\* raises TypeError.
num2seq(num) ==
    IF num.ndim = 1
    THEN IF \E i \in 1..Len(num.data) :
                num.data[i] >= Len(AAs) \/ num.data[i] < -Len(AAs)
         THEN Raise("IndexError")
         ELSE Ok([i \in 1..Len(num.data) |-> AAsAt(num.data[i])])
    ELSE IF num.data = <<>> THEN Ok(<<>>) ELSE Raise("TypeError")

\* The expansion that keeps a column for every symbol but the first.
OccurrenceEntry_bug(v, a) == IF v = a + 1 THEN 1 ELSE 0

\* msa_exp[:, i*q_gauge + a] = (seqs[:, i] == a), for one row.
OccurrenceEntry(v, a) == IF v = a THEN 1 ELSE 0

\* seq2occurrence(seqs_AA, q_true): the B x N*(q_true-1) matrix of the
\* occurrence variables.  seqs.shape[1] of a one-dimensional array raises
\* IndexError.
seq2occurrence(seqs_AA, q_true) ==
    LET r == seq2num(seqs_AA) IN
    IF r.tag = "raise" THEN r
    ELSE IF r.val.ndim = 1 THEN Raise("IndexError")
    ELSE LET sq == r.val.data
             B == Len(sq)
             N == Len(sq[1])
             q_gauge == q_true - 1
         IN Ok(Array2([b \in 1..B |->
                [c \in 1..(N * q_gauge) |->
                    OccurrenceEntry(sq[b][((c - 1) \div q_gauge) + 1],
                                    (c - 1) % q_gauge)]]))

\* The 0-based offsets of the ones of block i of a one-hot vector.
OnesOfBlock(seq1hot, i, q_true) ==
    {a \in 0..(q_true - 2) : seq1hot[i * (q_true - 1) + a + 1] = 1}

RECURSIVE BlockSymbols(_, _, _)
\* The list seq_from_1hot_gauged builds, from block i on: q_true-1 for a
\* block of zeros, the offset of the one of a block with a single one,
\* nothing ("problem!" is printed) for a block with several.
BlockSymbols(seq1hot, i, q_true) ==
    IF i >= Len(seq1hot) \div (q_true - 1) THEN <<>>
    ELSE LET ones == OnesOfBlock(seq1hot, i, q_true)
             rest == BlockSymbols(seq1hot, i + 1, q_true)
         IN IF ones = {} THEN <<q_true - 1>> \o rest
            ELSE IF Cardinality(ones) = 1
            THEN <<CHOOSE a \in ones : TRUE>> \o rest
            ELSE rest

\* seq_from_1hot_gauged(seq1hot, q_true)
seq_from_1hot_gauged(seq1hot, q_true) ==
    num2seq(Array1(BlockSymbols(seq1hot, 0, q_true)))

\* The strings given to the codec.
CodecStrings == SeqsUpTo(InputSyms, MaxSeqLen)

\* The inputs of the codec: a string; an alignment of B sequences of one
\* length L over the alphabet; a list that is not an alignment (lengths
\* differ, or a symbol is not of the alphabet).
CodecInputs ==
    {[type |-> "str", str |-> chars] : chars \in CodecStrings}
    \cup {[type |-> "list", list |-> l] :
            l \in UNION {[1..b -> [1..n -> KnownSyms]] :
                            b \in 0..MaxB, n \in 0..MaxSeqLen}}
    \cup {[type |-> "list", list |-> l] :
            l \in { << <<"W">>, <<"W", "Y">> >>, << <<"-", "Y">>, <<>> >>,
                    << <<"X">> >>, << <<"W">>, <<"X">> >> }}

CodecInit ==
    /\ arg \in [seq : CodecInputs, q_true : {21}]
    /\ ret = Idle
    /\ cpc = "start"
    /\ FastaIdle /\ MetroIdle /\ ChainsIdle

\* seq2num(seq)
CallSeq2num ==
    /\ cpc = "start"
    /\ ret' = seq2num(arg.seq)
    /\ cpc' = "seq2num"
    /\ UNCHANGED <<arg, fastaVars, metroVars, chainVars>>

\* num2seq(seq2num(seq)): num2seq applied to what seq2num returned.
CallNum2seq ==
    /\ cpc = "seq2num" /\ ret.tag = "ok"
    /\ ret' = num2seq(ret.val)
    /\ cpc' = "num2seq"
    /\ UNCHANGED <<arg, fastaVars, metroVars, chainVars>>

\* seq2occurrence(seqs_AA, q_true)
CallSeq2occurrence ==
    /\ cpc = "start"
    /\ ret' = seq2occurrence(arg.seq, arg.q_true)
    /\ cpc' = "seq2occurrence"
    /\ UNCHANGED <<arg, fastaVars, metroVars, chainVars>>

\* seq_from_1hot_gauged(msa_exp[b], q_true) of a row of the matrix that
\* seq2occurrence returned.
CallSeqFrom1hotGauged ==
    /\ cpc = "seq2occurrence" /\ ret.tag = "ok"
    /\ \E b \in 1..Len(ret.val.data) :
        ret' = seq_from_1hot_gauged(ret.val.data[b], arg.q_true)
    /\ cpc' = "seq_from_1hot_gauged"
    /\ UNCHANGED <<arg, fastaVars, metroVars, chainVars>>

CodecNext ==
    CallSeq2num \/ CallNum2seq \/ CallSeq2occurrence \/ CallSeqFrom1hotGauged

SpecCodec == CodecInit /\ [][CodecNext]_vars

\* The string is over the 21-symbol alphabet.
OverAlphabet(chars) == \A i \in 1..Len(chars) : InAlphabet(chars[i])

\* C4: for every string s over the alphabet, num2seq applied to the value
\* seq2num(s) returns gives back exactly s.
C4_RoundTrip ==
    (cpc = "num2seq" /\ arg.seq.type = "str" /\ OverAlphabet(arg.seq.str)) =>
        ret = Ok(arg.seq.str)

\* The input is a list of B >= 1 sequences of one length over the alphabet.
IsAlignment(seq) ==
    /\ seq.type = "list"
    /\ Len(seq.list) >= 1
    /\ \A b \in 1..Len(seq.list) :
        Len(seq.list[b]) = Len(seq.list[1]) /\ OverAlphabet(seq.list[b])

\* Block i (from 0) of a row of the occurrence matrix, as 20 columns.
Block(row, i) == [a \in 1..20 |-> row[20 * i + a]]

\* The 20 columns of a symbol: a single 1 at the offset of the symbol's
\* index when that is below 20, zeros for the last symbol.
OneHot(x) ==
    [a \in 1..20 |->
        IF \E k \in 1..20 : AAs[k] = x /\ k = a THEN 1 ELSE 0]

\* C5: for every list of B sequences of one length L over the alphabet,
\* seq2occurrence(seqs, q_true=21) returns a B x 20L matrix of 0/1 entries
\* where the block of columns [20i, 20i+20) of every row holds at most one
\* 1: one 1 at offset a when the symbol at position i has index a < 20,
\* and zeros exactly when the symbol is the last of the alphabet.
C5_OccurrenceBlocks ==
    (cpc = "seq2occurrence" /\ IsAlignment(arg.seq) /\ arg.q_true = 21) =>
        /\ ret.tag = "ok"
        /\ ret.val.ndim = 2
        /\ Len(ret.val.data) = Len(arg.seq.list)
        /\ \A b \in 1..Len(arg.seq.list) :
            LET row == ret.val.data[b]
                sq == arg.seq.list[b]
            IN /\ Len(row) = 20 * Len(sq)
               /\ \A c \in 1..Len(row) : row[c] \in {0, 1}
               /\ \A i \in 0..(Len(sq) - 1) :
                    /\ Cardinality({a \in 1..20 : Block(row, i)[a] = 1}) <= 1
                    /\ Block(row, i) = OneHot(sq[i + 1])
                    /\ (\A a \in 1..20 : Block(row, i)[a] = 0) <=> (sq[i + 1] = "Y")

\* An alignment of two sequences of two positions, with a symbol of index
\* below 20 and the last symbol in one row, has been expanded.
C5_Witness ==
    /\ cpc = "seq2occurrence" /\ IsAlignment(arg.seq) /\ arg.q_true = 21
    /\ ret.tag = "ok"
    /\ Len(arg.seq.list) = 2 /\ Len(arg.seq.list[1]) = 2
    /\ arg.seq.list[1] = <<"W", "Y">>
    /\ ret.val.data[1][20] = 1
    /\ \A c \in 21..40 : ret.val.data[1][c] = 0

----------------------------------------------------------------------------
(* indip_model_fields                                                      *)

\* freqs * (1 - alpha) + alpha / q, for one entry.
Pseudo(f, alpha, q) == RAdd(RMul(f, RSub(One, alpha)), RDiv(alpha, Rat(q, 1)))

\* pc_freqs of indip_model_fields.
PcFreqs(freqs, alpha, q) == [k \in 1..Len(freqs) |-> Pseudo(freqs[k], alpha, q)]

\* freq_gauge: zeros_like(pc_freqs), then for each of the L positions the
\* entries of its block set to 1 - np.sum of the block of pc_freqs.
FreqGauge(pc, q) ==
    LET L == Len(pc) \div (q - 1) IN
    [k \in 1..Len(pc) |->
        LET i == (k - 1) \div (q - 1) IN
        IF i < L
        THEN RSub(One, RSum(SubSeq(pc, i * (q - 1) + 1, (i + 1) * (q - 1))))
        ELSE Zero]

\* indip_model_fields(freqs, alpha, q): np.log(pc_freqs / freq_gauge).
indip_model_fields(freqs, alpha, q) ==
    LET pc == PcFreqs(freqs, alpha, q)
        fg == FreqGauge(pc, q)
    IN Ok([k \in 1..Len(freqs) |-> XLog(XDiv(pc[k], fg[k]))])

\* The counts of the explicit symbols of one position over FreqDen
\* sequences.
BlockCounts(q) ==
    {c \in [1..(q - 1) -> 0..FreqDen] : SumSeq(c) <= FreqDen}

\* Empirical frequency vectors of L positions: block counts over FreqDen.
FreqVectors(L, q) ==
    {[k \in 1..(L * (q - 1)) |->
        Rat(cs[((k - 1) \div (q - 1)) + 1][((k - 1) % (q - 1)) + 1], FreqDen)] :
     cs \in [1..L -> BlockCounts(q)]}

\* Pseudo-count strengths: none, the recommended 1/100, and 1/2.
Alphas == {Zero, Rat(1, 100), Rat(1, 2)}

FieldsInit ==
    /\ \E L \in 1..MaxL, q \in {3} :
        arg \in [freqs : FreqVectors(L, q), alpha : Alphas, q : {q}]
    /\ ret = Idle
    /\ cpc = "start"
    /\ FastaIdle /\ MetroIdle /\ ChainsIdle

\* indip_model_fields(freqs, alpha, q)
CallIndipModelFields ==
    /\ cpc = "start"
    /\ ret' = indip_model_fields(arg.freqs, arg.alpha, arg.q)
    /\ cpc' = "indip_model_fields"
    /\ UNCHANGED <<arg, fastaVars, metroVars, chainVars>>

FieldsNext == CallIndipModelFields

SpecFields == FieldsInit /\ [][FieldsNext]_vars

\* Some regularised frequency of an explicit symbol, or some position's
\* frequency of the implicit symbol, is exactly zero.
SomeZeroFrequency ==
    LET pc == PcFreqs(arg.freqs, arg.alpha, arg.q)
        fg == FreqGauge(pc, arg.q)
    IN \E k \in 1..Len(pc) : pc[k] = Zero \/ fg[k] = Zero

\* C6: indip_model_fields reports an error instead of returning a field
\* vector when alpha = 0 and some regularised frequency of an explicit
\* symbol or some position's frequency of the implicit symbol is zero.
C6_FieldsFailOnZeroFrequency ==
    (cpc = "indip_model_fields" /\ arg.alpha = Zero /\ SomeZeroFrequency) =>
        ret.tag = "raise"

----------------------------------------------------------------------------
(* compute_correlation_matrix, add_pseudocounts, bm_energy                 *)
(* A matrix is [dtype, data]: data is the sequence of its rows.            *)

\* compute_correlation_matrix(data_points): np.dot(x.T, x) / M, of
\* x = data_points.astype(np.float32), is a float32 matrix.
compute_correlation_matrix(data_points) ==
    LET M == Len(data_points)
        n == Len(data_points[1])
    IN [dtype |-> "float32",
        data |-> [k \in 1..n |-> [l \in 1..n |->
            Rat(SumSeq([m \in 1..M |-> data_points[m][k] * data_points[m][l]]), M)]]]

\* The frequencies of the columns of the data: np.mean(data_points, axis=0).
column_frequencies(data_points) ==
    LET M == Len(data_points)
        n == Len(data_points[1])
    IN [k \in 1..n |-> Rat(SumSeq([m \in 1..M |-> data_points[m][k]]), M)]

\* The entry of a diagonal block with the block zeroed after the diagonal
\* was set.
RepairedEntry_bug(k, l, f_pseudo, dtype) == Zero

\* The entry (k, l) of a diagonal block after "c_pseudo[block, block] = 0"
\* and "c_pseudo[i*q_gauge+a, i*q_gauge+a] = f_pseudo[i*q_gauge+a]": the
\* float64 f_pseudo is stored into c_pseudo, an array of corr_mat's dtype.
RepairedEntry(k, l, f_pseudo, dtype) ==
    IF k = l THEN Cast(f_pseudo[k], dtype) ELSE Zero

\* add_pseudocounts(corr_mat, freqs, alpha, q_true): the pair
\* (f_pseudo, c_pseudo).  N = len(freqs) // q_gauge positions are repaired.
\* (1-alpha)*corr_mat + alpha/(q_true**2) is a new array of corr_mat's
\* dtype (alpha is a Python float).
add_pseudocounts(corr_mat, freqs, alpha, q_true) ==
    LET q_gauge == q_true - 1
        N == Len(freqs) \div q_gauge
        f_pseudo == [k \in 1..Len(freqs) |->
            RAdd(RMul(RSub(One, alpha), freqs[k]), RDiv(alpha, Rat(q_true, 1)))]
        smoothed(k, l) ==
            RAdd(RMul(RSub(One, alpha), corr_mat.data[k][l]),
                 RDiv(alpha, Rat(q_true * q_true, 1)))
        c_pseudo ==
            [k \in 1..Len(corr_mat.data) |-> [l \in 1..Len(corr_mat.data[k]) |->
                IF /\ (k - 1) \div q_gauge = (l - 1) \div q_gauge
                   /\ (k - 1) \div q_gauge < N
                THEN RepairedEntry(k, l, f_pseudo, corr_mat.dtype)
                ELSE smoothed(k, l)]]
    IN Ok([f_pseudo |-> f_pseudo,
           c_pseudo |-> [dtype |-> corr_mat.dtype, data |-> c_pseudo]])

\* The energy with the linear term subtracted: -(h.s) - (s.J.s)/2.
EnergySum_bug(ener1, ener2) == RSub(ener1, ener2)

\* "return -(ener1 + ener2)"
EnergySum(ener1, ener2) == RNeg(RAdd(ener1, ener2))

\* bm_energy(jcoupling_gauss, ave_freqs, seq)
bm_energy(jcoupling_gauss, ave_freqs, seq) ==
    LET h == MatVec(jcoupling_gauss, ave_freqs)
        ener1 == RNeg(Dot(h, seq))
        ener2 == RDiv(Dot(seq, MatVec(jcoupling_gauss, seq)), Rat(2, 1))
    IN EnergySum(ener1, ener2)

\* A 0/1 vector as a vector of numbers.
AsNumbers(bits) == [k \in 1..Len(bits) |-> Rat(bits[k], 1)]

\* The occurrence rows (q_true = 3) of an alignment of three sequences of L
\* positions.
SampleData(L) ==
    seq2occurrence(
        [type |-> "list",
         list |-> << [i \in 1..L |-> "-"],
                     [i \in 1..L |-> IF i % 2 = 1 THEN "A" ELSE "C"],
                     [i \in 1..L |-> IF i = 1 THEN "A" ELSE "-"],
                     [i \in 1..L |-> "A"] >>], 3).val.data

\* Matrices of dimension n: the correlation matrix of the sample data,
\* and as float32 and as float64 matrices a symmetric one and one that is
\* not symmetric and has negative entries.
Matrices(L) ==
    LET n == 2 * L IN
    { compute_correlation_matrix(SampleData(L)) }
    \cup {[dtype |-> d, data |-> m] :
            d \in {"float32", "float64"},
            m \in { [k \in 1..n |-> [l \in 1..n |-> Rat(k * l, 4)]],
                    [k \in 1..n |-> [l \in 1..n |-> Rat(k + 2 * l - 4, 2)]] }}

\* Frequency vectors of dimension n: those of the sample data, distinct
\* entries, all zero.
Frequencies(L) ==
    LET n == 2 * L IN
    { column_frequencies(SampleData(L)),
      [k \in 1..n |-> Rat(k, 16)],
      [k \in 1..n |-> Zero] }

GaussInit ==
    /\ \E L \in 1..MaxL :
        arg \in [corr_mat : Matrices(L), freqs : Frequencies(L),
                 alpha : Alphas, q_true : {3},
                 seq : [1..(2 * L) -> {0, 1}]]
    /\ ret = Idle
    /\ cpc = "start"
    /\ FastaIdle /\ MetroIdle /\ ChainsIdle

\* add_pseudocounts(corr_mat, freqs, alpha, q_true)
CallAddPseudocounts ==
    /\ cpc = "start"
    /\ ret' = add_pseudocounts(arg.corr_mat, arg.freqs, arg.alpha, arg.q_true)
    /\ cpc' = "add_pseudocounts"
    /\ UNCHANGED <<arg, fastaVars, metroVars, chainVars>>

\* bm_energy(jcoupling_gauss, ave_freqs, seq), with the matrix as coupling.
CallBmEnergy ==
    /\ cpc = "start"
    /\ ret' = Ok(bm_energy(arg.corr_mat.data, arg.freqs, AsNumbers(arg.seq)))
    /\ cpc' = "bm_energy"
    /\ UNCHANGED <<arg, fastaVars, metroVars, chainVars>>

GaussNext == CallAddPseudocounts \/ CallBmEnergy

SpecGauss == GaussInit /\ [][GaussNext]_vars

\* (1 - alpha) * x + alpha / d
Smoothed(x, alpha, d) == RAdd(RSub(x, RMul(alpha, x)), RDiv(alpha, Rat(d, 1)))

\* Entries k and l (from 1) belong to the block of one position.
SameBlock(k, l, q_gauge) == (k - 1) \div q_gauge = (l - 1) \div q_gauge

RECURSIVE SumOver(_, _)
\* The sum of term[pr] over the index pairs pr of a set.
SumOver(pairs, term) ==
    IF pairs = {} THEN Zero
    ELSE LET pr == CHOOSE x \in pairs : TRUE
         IN RAdd(term[pr], SumOver(pairs \ {pr}, term))

\* sum over k, l of J[k][l] * f[l] * s[k]
LinearTerm ==
    LET n == Len(arg.seq)
        term == [pr \in (1..n) \X (1..n) |->
                    RMul(RMul(arg.corr_mat.data[pr[1]][pr[2]], arg.freqs[pr[2]]),
                         Rat(arg.seq[pr[1]], 1))]
    IN SumOver((1..n) \X (1..n), term)

\* sum over k, l of s[k] * J[k][l] * s[l]
QuadraticTerm ==
    LET n == Len(arg.seq)
        term == [pr \in (1..n) \X (1..n) |->
                    RMul(arg.corr_mat.data[pr[1]][pr[2]],
                         Rat(arg.seq[pr[1]] * arg.seq[pr[2]], 1))]
    IN SumOver((1..n) \X (1..n), term)

Half(x) == RDiv(x, Rat(2, 1))

\* C8 as stated: bm_energy(J, f, s) = -[ (J.f).s + (1/2) s.(J.s) ]: the
\* linear and the quadratic term enter with the same sign.
C8_Original ==
    cpc = "bm_energy" =>
        ret = Ok(RNeg(RAdd(LinearTerm, Half(QuadraticTerm))))

\* C8 amended: bm_energy(J, f, s) = (J.f).s - (1/2) s.(J.s): the linear
\* and the quadratic term enter with opposite signs.
C8_EnergyForm ==
    cpc = "bm_energy" =>
        ret = Ok(RSub(LinearTerm, Half(QuadraticTerm)))

\* An energy whose linear and quadratic terms are both non-zero has been
\* computed.
C8_Witness ==
    /\ cpc = "bm_energy"
    /\ LinearTerm # Zero
    /\ QuadraticTerm # Zero
    /\ Len(arg.seq) = 4
    /\ ret = Ok(RSub(LinearTerm, Half(QuadraticTerm)))

----------------------------------------------------------------------------
(* metropolis                                                              *)
(*                                                                         *)
(* cpc is "start", "loop", "return 1" (the rejected start configuration),  *)
(* "return s" or "raised".                                                 *)
(* start_conf is the object the caller passed: [kind, dtype, data,         *)
(* has_nan].  s and s_t hold the contents of the arrays the names s and    *)
(* s_t are bound to; s_alias says that s is bound to the caller's array    *)
(* itself ("s = start_conf"), so that a write through s would be a write   *)
(* to start_conf.                                                          *)

\* The default start_conf=np.nan.
NanScalar == [kind |-> "scalar", dtype |-> "float64", data |-> <<>>, has_nan |-> TRUE]

NdArray(dtype, data, has_nan) ==
    [kind |-> "ndarray", dtype |-> dtype, data |-> data, has_nan |-> has_nan]

\* np.isnan(np.sum(start_conf)): the sum of floats is nan when one of them
\* is.
SumIsNan(sc) == sc.has_nan

\* np.sum(start_conf) or np.isnan of it raises TypeError: None, a str.
SumRaises(sc) == sc.kind \in {"None", "str"}

\* type(start_conf[0]): np.<dtype> for an array, int for a list of ints.
TypeOfFirst(sc) == IF sc.kind = "ndarray" THEN sc.dtype ELSE "int"

\* np.random.randint(1, size=L): L draws from [0, 1), all 0.
RandintBelowOne(L) == [i \in 1..L |-> 0]

\* The rows (from 1) of the block of position pos (from 0).
BlockRows(pos, q_true) == [a \in 1..(q_true - 1) |-> pos * (q_true - 1) + a]

\* A t_1hot of ones.
OneHotBlock_bug(n, q_true) == [a \in 1..(q_true - 1) |-> 1]

\* t_1hot: np.repeat(0, q_true-1) with t_1hot[t_n] = 1 unless t_n is
\* q_true-1.
OneHotBlock(n, q_true) == [a \in 1..(q_true - 1) |-> IF a - 1 = n THEN 1 ELSE 0]

\* The proposal with every other block cleared.
Proposal_bug(cur, pos, n, q_true) ==
    [i \in 1..Len(cur) |->
        IF (i - 1) \div (q_true - 1) = pos
        THEN OneHotBlock(n, q_true)[((i - 1) % (q_true - 1)) + 1]
        ELSE 0]

\* s_t = s.copy(); s_t[pos_t*(q_true-1):(pos_t+1)*(q_true-1)] = t_1hot
Proposal(cur, pos, n, q_true) ==
    [i \in 1..Len(cur) |->
        IF (i - 1) \div (q_true - 1) = pos
        THEN OneHotBlock(n, q_true)[((i - 1) % (q_true - 1)) + 1]
        ELSE cur[i]]

\* The energy difference without delta_coupl2.
EnergyDiff_bug(jcoupl, p, cur, prop, pos, q_true) ==
    LET rows == BlockRows(pos, q_true)
        nb == q_true - 1
        delta_seq == [a \in 1..nb |-> Rat(cur[rows[a]] - prop[rows[a]], 1)]
        h == [a \in 1..nb |-> Dot(jcoupl[rows[a]], p)]
        delta_h == RNeg(Dot(delta_seq, h))
        jcoupl_marginal == [a \in 1..nb |-> Dot(jcoupl[rows[a]], AsNumbers(cur))]
        delta_coupl1 == Dot(delta_seq, jcoupl_marginal)
    IN RAdd(delta_h, delta_coupl1)

\* energy_diff = delta_h + delta_coupl1 + delta_coupl2, from the rows of
\* jcoupl of position pos.
EnergyDiff(jcoupl, p, cur, prop, pos, q_true) ==
    LET rows == BlockRows(pos, q_true)
        nb == q_true - 1
        delta_seq == [a \in 1..nb |-> Rat(cur[rows[a]] - prop[rows[a]], 1)]
        h == [a \in 1..nb |-> Dot(jcoupl[rows[a]], p)]
        delta_h == RNeg(Dot(delta_seq, h))
        jcoupl_diag == [a \in 1..nb |-> [b \in 1..nb |-> jcoupl[rows[a]][rows[b]]]]
        jcoupl_marginal == [a \in 1..nb |-> Dot(jcoupl[rows[a]], AsNumbers(cur))]
        delta_coupl1 == Dot(delta_seq, jcoupl_marginal)
        delta_coupl2 ==
            RMul(Rat(-1, 2), Dot(delta_seq, MatVec(jcoupl_diag, delta_seq)))
    IN RAdd(RAdd(delta_h, delta_coupl1), delta_coupl2)

\* The acceptance test with beta left out of the exponent.
AcceptOutcomes_bug(beta, ediff) ==
    IF RLt(RNeg(ediff), Zero) THEN {TRUE, FALSE} ELSE {TRUE}

\* prob = min(1, np.exp(-beta * energy_diff)); x = np.random.rand();
\* "x < prob".  x is uniform on [0, 1): with -beta*energy_diff >= 0 prob is
\* 1 and every x is below it; otherwise prob is below 1 and x falls on
\* either side.
AcceptOutcomes(beta, ediff) ==
    IF RLt(RMul(RNeg(beta), ediff), Zero) THEN {TRUE, FALSE} ELSE {TRUE}

\* Coupling matrices of dimension n: a symmetric one and one that is not.
Couplings(n) ==
    { [k \in 1..n |-> [l \in 1..n |-> Rat(k + l - 4, 2)]],
      [k \in 1..n |-> [l \in 1..n |-> Rat(k + 2 * l - 4, 2)]] }

\* The element type of the matrix seq2occurrence returns:
\* np.zeros((B, N * q_gauge), dtype=np.int16).
OccurrenceDtype == "int16"

\* Row b (from 1) of the occurrence matrix of the sample alignment of L
\* positions, as the array object msa_exp[b-1].
OccurrenceRow(L, b) == NdArray(OccurrenceDtype, SampleData(L)[b], FALSE)

\* Start configurations for a chain on n variables: the default, int32
\* arrays (valid ones, one of a wrong length, an empty one), arrays of other
\* element types, a row of an occurrence matrix (q_true = 3), a float array
\* that holds a nan, a list, None, a str.
StartConfs(n) ==
    { NanScalar,
      NdArray("int32", [i \in 1..n |-> 0], FALSE),
      NdArray("int32", [i \in 1..n |-> IF i = 1 THEN 1 ELSE 0], FALSE),
      NdArray("int32", [i \in 1..(n + 1) |-> 0], FALSE),
      NdArray("int32", <<>>, FALSE),
      NdArray("int16", [i \in 1..n |-> IF i = 2 THEN 1 ELSE 0], FALSE),
      NdArray("int64", [i \in 1..n |-> 0], FALSE),
      OccurrenceRow(n \div 2, 2),
      NdArray("float64", [i \in 1..n |-> 0], FALSE),
      NdArray("float64", [i \in 1..n |-> 0], TRUE),
      [kind |-> "list", dtype |-> "int", data |-> [i \in 1..n |-> 0], has_nan |-> FALSE],
      [kind |-> "None", dtype |-> "NoneType", data |-> <<>>, has_nan |-> FALSE],
      [kind |-> "str", dtype |-> "str", data |-> <<>>, has_nan |-> FALSE] }

MetropolisInit ==
    /\ \E npos \in 1..MaxPos :
        /\ arg \in [jcoupl : Couplings(2 * npos),
                    p : {[k \in 1..(2 * npos) |-> Rat(k, 16)]},
                    Nsteps : {0, MaxSteps},
                    beta : {Zero, One},
                    q_true : {3}]
        /\ start_conf \in StartConfs(2 * npos)
    /\ ret = Idle
    /\ cpc = "start"
    /\ s = Idle /\ s_alias = Idle /\ k_loop = 0
    /\ pos_t = Idle /\ t_n = Idle /\ s_t = Idle
    /\ energy_diff = Idle /\ accepted = Idle
    /\ FastaIdle /\ ChainsIdle

stepLocals == <<pos_t, t_n, s_t, energy_diff, accepted>>

\* np.sum(start_conf) or np.isnan(...) raises.
StartRaiseType ==
    /\ cpc = "start"
    /\ SumRaises(start_conf)
    /\ ret' = Raise("TypeError")
    /\ cpc' = "raised"
    /\ UNCHANGED <<arg, start_conf, s, s_alias, k_loop, stepLocals, fastaVars, chainVars>>

\* "if np.isnan(np.sum(start_conf))": the chain starts from the array
\* randint gives; the local name start_conf is bound to a copy of it.
StartDefault ==
    /\ cpc = "start"
    /\ ~SumRaises(start_conf) /\ SumIsNan(start_conf)
    /\ s' = RandintBelowOne(Len(arg.p))
    /\ s_alias' = FALSE
    /\ cpc' = "loop"
    /\ UNCHANGED <<arg, ret, start_conf, k_loop, stepLocals, fastaVars, chainVars>>

\* start_conf[0] of an empty array raises IndexError.
StartRaiseIndex ==
    /\ cpc = "start"
    /\ ~SumRaises(start_conf) /\ ~SumIsNan(start_conf)
    /\ start_conf.data = <<>>
    /\ ret' = Raise("IndexError")
    /\ cpc' = "raised"
    /\ UNCHANGED <<arg, start_conf, s, s_alias, k_loop, stepLocals, fastaVars, chainVars>>

\* "if type(start_conf[0]) != np.int32": a message is printed and 1 is
\* returned.
StartReject ==
    /\ cpc = "start"
    /\ ~SumRaises(start_conf) /\ ~SumIsNan(start_conf)
    /\ start_conf.data # <<>>
    /\ TypeOfFirst(start_conf) # "int32"
    /\ ret' = Ok(1)
    /\ cpc' = "return 1"
    /\ UNCHANGED <<arg, start_conf, s, s_alias, k_loop, stepLocals, fastaVars, chainVars>>

\* "s = start_conf": s is the caller's array.
StartAccept ==
    /\ cpc = "start"
    /\ ~SumRaises(start_conf) /\ ~SumIsNan(start_conf)
    /\ start_conf.data # <<>>
    /\ TypeOfFirst(start_conf) = "int32"
    /\ s' = start_conf.data
    /\ s_alias' = TRUE
    /\ cpc' = "loop"
    /\ UNCHANGED <<arg, ret, start_conf, k_loop, stepLocals, fastaVars, chainVars>>

\* One iteration of "for k in range(0, Nsteps)": propose, compute the
\* energy difference, accept or reject.  s_t is a copy, so writing the
\* proposal leaves s and start_conf as they are; "s = s_t.copy()" binds s
\* to a new array.
MetropolisStep ==
    /\ cpc = "loop" /\ k_loop < arg.Nsteps
    /\ Len(s) = Len(arg.p)
    /\ \E pos \in 0..((Len(arg.p) \div (arg.q_true - 1)) - 1),
          n \in 0..(arg.q_true - 1) :
        /\ pos_t' = pos
        /\ t_n' = n
        /\ s_t' = Proposal(s, pos, n, arg.q_true)
        /\ energy_diff' =
               EnergyDiff(arg.jcoupl, arg.p, s, s_t', pos, arg.q_true)
        /\ \E acc \in AcceptOutcomes(arg.beta, energy_diff') :
            /\ accepted' = acc
            /\ s' = IF acc THEN s_t' ELSE s
            /\ s_alias' = IF acc THEN FALSE ELSE s_alias
    /\ k_loop' = k_loop + 1
    /\ UNCHANGED <<arg, ret, cpc, start_conf, fastaVars, chainVars>>

\* The first iteration on an s whose length is not len(p): the slice
\* assignment or np.dot(jcoupl[...], s) raises ValueError.
MetropolisStepRaise ==
    /\ cpc = "loop" /\ k_loop < arg.Nsteps
    /\ Len(s) # Len(arg.p)
    /\ ret' = Raise("ValueError")
    /\ cpc' = "raised"
    /\ UNCHANGED <<arg, start_conf, s, s_alias, k_loop, stepLocals, fastaVars, chainVars>>

\* "return s" after Nsteps iterations.
MetropolisReturn ==
    /\ cpc = "loop" /\ k_loop = arg.Nsteps
    /\ ret' = Ok(s)
    /\ cpc' = "return s"
    /\ UNCHANGED <<arg, start_conf, s, s_alias, k_loop, stepLocals, fastaVars, chainVars>>

MetropolisNext ==
    \/ StartRaiseType
    \/ StartDefault
    \/ StartRaiseIndex
    \/ StartReject
    \/ StartAccept
    \/ MetropolisStep
    \/ MetropolisStepRaise
    \/ MetropolisReturn

SpecMetropolis == MetropolisInit /\ [][MetropolisNext]_vars

\* C9: in metropolis with beta = 0 every proposed move is accepted: after
\* each step the chain state is the proposed configuration s_t of that
\* step.
C9_BetaZeroAccepts ==
    (cpc \in {"loop", "return s"} /\ arg.beta = Zero /\ k_loop > 0) =>
        accepted = TRUE /\ s = s_t

\* With beta = 0 a move that raises the energy has been proposed and taken.
C9_Witness ==
    /\ cpc = "loop" /\ arg.beta = Zero /\ k_loop > 1
    /\ RLt(Zero, energy_diff)
    /\ accepted = TRUE /\ s = s_t

\* The start configuration is neither the default nor an array of integers:
\* a float array, a list, None, a str.
InvalidStartType ==
    /\ start_conf # NanScalar
    /\ ~(start_conf.kind = "ndarray" /\ start_conf.dtype \in {"int16", "int32", "int64"})

\* C10: given a start configuration of an invalid type, metropolis fails
\* at once: it executes no step and does not end at "return s" with a
\* configuration.
C10_InvalidStartFailsFast ==
    InvalidStartType => (k_loop = 0 /\ cpc # "return s")

\* J[k][l] = J[l][k] for all k, l.
Symmetric(jcoupl) ==
    \A k \in 1..Len(jcoupl) : \A l \in 1..Len(jcoupl) : jcoupl[k][l] = jcoupl[l][k]

\* bm_energy(J, p, s_t) - bm_energy(J, p, s)
FullEnergyDiff(jcoupl, p, cur, prop) ==
    RSub(bm_energy(jcoupl, p, AsNumbers(prop)), bm_energy(jcoupl, p, AsNumbers(cur)))

\* C11: in every metropolis step with a symmetric coupling matrix the
\* locally computed energy_diff equals
\* bm_energy(J, p, s_t) - bm_energy(J, p, s), s being the state before the
\* step and s_t the proposal of the step.
C11_LocalEnergyDiff ==
    [][(k_loop' = k_loop + 1 /\ Symmetric(arg.jcoupl)) =>
            energy_diff' = FullEnergyDiff(arg.jcoupl, arg.p, s, s_t')]_vars

\* A step with a symmetric coupling matrix has proposed a move to another
\* configuration, of non-zero energy difference, and rejected it: s is the
\* state the step started from.
C11_Witness ==
    /\ cpc = "loop" /\ k_loop > 0
    /\ Symmetric(arg.jcoupl)
    /\ accepted = FALSE
    /\ s_t # s
    /\ energy_diff # Zero
    /\ energy_diff = FullEnergyDiff(arg.jcoupl, arg.p, s, s_t)

\* v has n entries, all 0 or 1, and at most one 1 in each block of
\* q_true-1 entries.
ValidOccurrence(v, n, q_true) ==
    /\ Len(v) = n
    /\ \A i \in 1..n : v[i] \in {0, 1}
    /\ \A i \in 1..n : \A j \in 1..n :
            (i # j /\ (i - 1) \div (q_true - 1) = (j - 1) \div (q_true - 1)) =>
                v[i] + v[j] <= 1

\* The default start, or an int32 array that is a valid occurrence vector
\* of length len(p).
ValidStart ==
    \/ start_conf = NanScalar
    \/ /\ start_conf.kind = "ndarray" /\ start_conf.dtype = "int32"
       /\ ~start_conf.has_nan
       /\ ValidOccurrence(start_conf.data, Len(arg.p), arg.q_true)

\* C12: from the default start or a valid start configuration, the chain
\* state s is, before and after every step and at return, a vector of
\* length len(p) of 0/1 entries with at most one 1 in each block; the
\* value returned is s.
C12_ChainStateValid ==
    (ValidStart /\ cpc \in {"loop", "return s"}) =>
        /\ ValidOccurrence(s, Len(arg.p), arg.q_true)
        /\ cpc = "return s" => ret = Ok(s)

\* A chain on two positions has returned, after two steps or more, a
\* state with a 1 in each of the two blocks.
C12_Witness ==
    /\ cpc = "return s" /\ k_loop >= 2
    /\ Len(arg.p) = 4
    /\ s[1] + s[2] = 1 /\ s[3] + s[4] = 1
    /\ ret = Ok(s)

\* C13: a metropolis step that rejects leaves the state as it was; a step
\* that accepts leaves every block but the chosen one as it was and makes
\* the chosen block the proposed t_1hot.
C13_StepFrame ==
    [][k_loop' = k_loop + 1 =>
        IF accepted'
        THEN /\ Len(s') = Len(s)
             /\ \A i \in 1..Len(s) :
                    IF (i - 1) \div (arg.q_true - 1) = pos_t'
                    THEN s'[i] = (IF (i - 1) % (arg.q_true - 1) = t_n' THEN 1 ELSE 0)
                    ELSE s'[i] = s[i]
        ELSE s' = s]_vars

\* An accepted step on the second position has set its block to a one-hot
\* block while the first position's block still holds its 1.
C13_Witness ==
    /\ cpc = "loop" /\ k_loop > 0
    /\ Len(arg.p) = 4
    /\ accepted = TRUE /\ pos_t = 1 /\ t_n = 0
    /\ s = <<1, 0, 1, 0>>


\* start_conf is a row of the matrix seq2occurrence returns for the sample
\* alignment of len(p) // (q_true-1) positions.
IsOccurrenceRow ==
    \E b \in 1..Len(SampleData(Len(arg.p) \div 2)) :
        start_conf = OccurrenceRow(Len(arg.p) \div 2, b)

\* C15: a row of the matrix returned by seq2occurrence, passed as
\* start_conf, is accepted by metropolis: the call enters the loop, and
\* before the first step the chain state is that row.
C15_OccurrenceRowAccepted ==
    (IsOccurrenceRow /\ cpc # "start") =>
        /\ cpc \in {"loop", "return s"}
        /\ k_loop = 0 => s = start_conf.data

----------------------------------------------------------------------------
(* Chains of metropolis started from one start_conf array                  *)
(*                                                                         *)
(* Every call of metropolis gets the same array object as start_conf, and  *)
(* the iterations of the calls are interleaved.  heap maps an array to its *)
(* contents: CallerRef is the caller's array, <<c, "s">>, <<c, "s_t">> and *)
(* <<c, "new">> are the arrays call c creates.  start_conf keeps the       *)
(* object as it was passed; heap[CallerRef] is what the array holds now.   *)
(* chain[c] is [pc, s, k, ret]: the position of call c ("start", "loop",   *)
(* "return 1", "return s"), the array its name s is bound to, its loop     *)
(* counter and its result.                                                 *)

Chains == {1, 2}

\* Nsteps of the interleaved chains.
ChainSteps == MaxSteps

CallerRef == <<0, "start_conf">>

NoRef == <<0, "unbound">>

Refs == {CallerRef} \cup {<<c, nm>> : c \in Chains, nm \in {"s", "s_t", "new"}}

\* The result of a call that has not returned.
NoResult == [tag |-> "none"]

\* The contents of an array that does not exist.
NoArray == <<>>

\* a.copy() evaluated to the array a itself.
copy_bug(src, fresh) == src

\* a.copy(): the array the expression evaluates to is the new array.
copy(src, fresh) == fresh

\* The arrays after an iteration of call c that leaves its name s bound
\* to ref: s_t is dead (the next iteration rebinds it before any read),
\* and an array of the call that s is bound to is kept as <<c, "s">>.
Collect(h, c, ref) ==
    [r \in Refs |->
        IF r[1] # c THEN h[r]
        ELSE IF r[2] = "s" /\ ref[1] = c THEN h[ref]
        ELSE NoArray]

\* The name of the array s is bound to after Collect.
Canon(c, ref) == IF ref[1] = c THEN <<c, "s">> ELSE ref

\* Arrays that pass or fail the type test without raising and have the
\* length of p.
ChainStartConfs(n) ==
    {sc \in StartConfs(n) :
        /\ sc.kind = "ndarray" /\ ~sc.has_nan /\ Len(sc.data) = n}

ChainsInit ==
    /\ \E npos \in 1..MaxPos :
        /\ arg \in [jcoupl : {[k \in 1..(2 * npos) |->
                                [l \in 1..(2 * npos) |-> Rat(k + l - 4, 2)]]},
                    p : {[k \in 1..(2 * npos) |-> Rat(k, 16)]},
                    Nsteps : {ChainSteps},
                    beta : {One},
                    q_true : {3}]
        /\ start_conf \in ChainStartConfs(2 * npos)
    /\ heap = [r \in Refs |-> IF r = CallerRef THEN start_conf.data ELSE NoArray]
    /\ chain = [c \in Chains |-> [pc |-> "start", s |-> NoRef, k |-> 0, ret |-> NoResult]]
    /\ ret = Idle /\ cpc = Idle
    /\ s = Idle /\ s_alias = Idle /\ k_loop = Idle
    /\ pos_t = Idle /\ t_n = Idle /\ s_t = Idle
    /\ energy_diff = Idle /\ accepted = Idle
    /\ FastaIdle

singleVars == <<ret, cpc, s, s_alias, k_loop, stepLocals>>

\* "if type(start_conf[0]) != np.int32": print and return 1.
ChainStartReject(c) ==
    /\ chain[c].pc = "start"
    /\ TypeOfFirst(start_conf) # "int32"
    /\ chain' = [chain EXCEPT ![c].pc = "return 1", ![c].ret = Ok(1)]
    /\ UNCHANGED <<arg, start_conf, heap, singleVars, fastaVars>>

\* "s = start_conf": the name s of call c is bound to the caller's array.
ChainStartAccept(c) ==
    /\ chain[c].pc = "start"
    /\ TypeOfFirst(start_conf) = "int32"
    /\ chain' = [chain EXCEPT ![c].pc = "loop", ![c].s = CallerRef]
    /\ UNCHANGED <<arg, start_conf, heap, singleVars, fastaVars>>

\* One iteration of the loop of call c.  "s_t = s.copy()" creates the
\* array <<c, "s_t">>; the slice assignment writes into the array s_t is
\* bound to; the energy difference reads the arrays s and s_t are bound
\* to; "s = s_t.copy()" creates <<c, "new">> and binds s to it.
ChainStep(c) ==
    /\ chain[c].pc = "loop" /\ chain[c].k < arg.Nsteps
    /\ \E pos \in 0..((Len(arg.p) \div (arg.q_true - 1)) - 1),
          n \in 0..(arg.q_true - 1) :
        LET sref == chain[c].s
            tref == copy(sref, <<c, "s_t">>)
            h1 == [heap EXCEPT ![<<c, "s_t">>] = heap[sref]]
        IN \E h2 \in {[h1 EXCEPT ![tref] = Proposal(h1[tref], pos, n, arg.q_true)]} :
           \E ediff \in {EnergyDiff(arg.jcoupl, arg.p, h2[sref], h2[tref], pos,
                                    arg.q_true)} :
           \E acc \in AcceptOutcomes(arg.beta, ediff) :
            LET nref == IF acc THEN copy(tref, <<c, "new">>) ELSE sref
                h3 == IF acc THEN [h2 EXCEPT ![<<c, "new">>] = h2[tref]] ELSE h2
            IN /\ heap' = Collect(h3, c, nref)
               /\ chain' = [chain EXCEPT ![c].s = Canon(c, nref),
                                         ![c].k = chain[c].k + 1]
    /\ UNCHANGED <<arg, start_conf, singleVars, fastaVars>>

\* "return s" of call c.
ChainReturn(c) ==
    /\ chain[c].pc = "loop" /\ chain[c].k = arg.Nsteps
    /\ chain' = [chain EXCEPT ![c].pc = "return s",
                              ![c].ret = Ok(heap[chain[c].s])]
    /\ UNCHANGED <<arg, start_conf, heap, singleVars, fastaVars>>

ChainsNext ==
    \E c \in Chains :
        \/ ChainStartReject(c)
        \/ ChainStartAccept(c)
        \/ ChainStep(c)
        \/ ChainReturn(c)

SpecChains == ChainsInit /\ [][ChainsNext]_vars

\* The state of call c: what the array its name s is bound to holds.
ChainState(h, ch) == IF ch.pc \in {"loop", "return s"} THEN h[ch.s] ELSE NoArray

\* The steps metropolis running alone can take from state cur.
AloneSteps(cur) ==
    {IF acc THEN Proposal(cur, pos, n, arg.q_true) ELSE cur :
        pos \in 0..((Len(arg.p) \div (arg.q_true - 1)) - 1),
        n \in 0..(arg.q_true - 1),
        acc \in BOOLEAN}

\* C14: chains started from one start_conf array and interleaved do not
\* interact: no step of any chain changes what the start_conf array
\* holds, a step of one chain leaves the state of every other chain as it
\* is, and the chain that steps moves from its own state as metropolis
\* running alone does.
C14_ChainsIndependent ==
    [][/\ heap'[CallerRef] = start_conf.data
       /\ \A c \in Chains :
            /\ (chain'[c].pc = chain[c].pc /\ chain'[c].k = chain[c].k) =>
                    ChainState(heap', chain'[c]) = ChainState(heap, chain[c])
            /\ chain'[c].k = chain[c].k + 1 =>
                    LET cur == ChainState(heap, chain[c])
                        new == ChainState(heap', chain'[c])
                    IN new \in AloneSteps(cur)
            /\ chain'[c].pc = "return s" => chain'[c].ret = Ok(ChainState(heap', chain'[c]))
      ]_vars

\* Two chains started from one array that holds a 1 have both returned,
\* in different states that both differ from the start configuration, and
\* the array still holds what it held.
C14_Witness ==
    /\ \A c \in Chains : chain[c].pc = "return s" /\ chain[c].k >= 2
    /\ \E i \in 1..Len(start_conf.data) : start_conf.data[i] = 1
    /\ heap[CallerRef] = start_conf.data
    /\ heap[chain[1].s] # heap[chain[2].s]
    /\ \A c \in Chains : heap[chain[c].s] # start_conf.data

====
